---- MODULE Spec2Model ----
(***************************************************************************)
(* PDF question-answering service (src/app.py): three FastAPI handlers     *)
(* (root, upload_pdf, ask_question) over one process-wide dictionary       *)
(* pdf_storage, a PDF text extractor and one outbound POST to the          *)
(* completion provider.  Strings are sequences of symbols: a document or   *)
(* question character is one symbol, a literal of the source is one        *)
(* symbol.                                                                 *)
(***************************************************************************)
EXTENDS Integers, Sequences, FiniteSets, TLC

VARIABLES pdf_storage, reqs, loop, resp, lastPut

vars == <<pdf_storage, reqs, loop, resp, lastPut>>

\* ------------------------------------------------------------------ bounds
MaxReq == 2
MaxPages == 2

Rid == 1..MaxReq

\* ------------------------------------------------------------- input sets
NL == "\n"
BS == "\\"

\* The text of one page, as page.get_text("text") returns it: a page without
\* text, and a page with one line.
PageTexts == {<<>>, <<"a", NL>>}

Documents == UNION {[1..n -> PageTexts] : n \in 1..MaxPages}

NoCause == <<>>

FileContents ==
    {[ok |-> TRUE, pages |-> d, err |-> NoCause] : d \in Documents}
    \cup {[ok |-> FALSE, pages |-> <<>>, err |-> <<"cannot open broken document">>]}

Filenames ==
    { <<"a", ".", "p", "d", "f">>,
      <<"a", ".", "P", "D", "F">>,
      <<"p", "d", "f">>,
      <<"a", ".", "p", "d", "f", ".", "t", "x", "t">> }

Questions == {<<>>, <<"q", NL>>}

\* JSON values of the provider's `output` field
JStr(s) == [t |-> "string", v |-> s]
JNum(s) == [t |-> "number", v |-> s]
JNull == [t |-> "null", v |-> ""]
OutputValues == {JStr("It says a."), JNum("7")}

\* A response body of the provider: t is "text" for a body that is not JSON,
\* else the JSON type of the top-level value; has: whether the Python test
\* `"output" in response_data` is true of it (a key of an object, an element
\* of an array, a substring of a string); val: the value under "output".
Body(t, has, val) == [t |-> t, has |-> has, val |-> val]
NoBody == Body("none", FALSE, JNull)
Bodies ==
    {Body("text", FALSE, JNull), Body("object", FALSE, JNull),
     Body("array", FALSE, JNull), Body("string", TRUE, JNull),
     Body("number", FALSE, JNull)}
    \cup {Body("object", TRUE, v) : v \in OutputValues}

\* What requests.post produces: a connection error, or an HTTP response.
Upstream(kind, status, body, cause) ==
    [kind |-> kind, status |-> status, body |-> body, cause |-> cause]
NoUpstream == Upstream("none", 0, NoBody, NoCause)
Replies ==
    {Upstream("ConnectionError", 0, NoBody, <<"Connection refused">>),
     Upstream("http", 404, Body("text", FALSE, JNull), <<"404 Client Error">>),
     Upstream("http", 503, Body("object", TRUE, JStr("It says a.")), <<"503 Server Error">>)}
    \cup {Upstream("http", 200, b, NoCause) : b \in Bodies}

\* response.json() on a body that is not JSON raises JSONDecodeError, which is
\* a RequestException from requests 2.27 on and a plain ValueError before; the
\* source pins no version.
Builds == {"JSONDecodeError is RequestException", "JSONDecodeError is ValueError"}

\* ------------------------------------------------------- pure functions
Key == "current_pdf"

EmptyStorage == [k \in {} |-> <<>>]

\* str.endswith
EndsWith(s, suffix) ==
    /\ Len(s) >= Len(suffix)
    /\ SubSeq(s, Len(s) - Len(suffix) + 1, Len(s)) = suffix

PdfExt == <<".", "p", "d", "f">>

\* Mutant of JoinNewline: the pages concatenated without the separator.
RECURSIVE JoinNoSeparator(_)
JoinNoSeparator(pages) ==
    IF Len(pages) = 0 THEN <<>>
    ELSE pages[1] \o JoinNoSeparator(Tail(pages))

\* "\n".join(...)
RECURSIVE JoinNewline(_)
JoinNewline(pages) ==
    IF Len(pages) = 0 THEN <<>>
    ELSE IF Len(pages) = 1 THEN pages[1]
    ELSE pages[1] \o <<NL>> \o JoinNewline(Tail(pages))

\* Outcome of a Python call: a returned value, a raised HTTPException, or
\* another exception, which no handler of the source catches.
Return(v) == [raised |-> "no", status |-> 200, detail |-> <<>>, value |-> v]
HTTPException(status, detail) ==
    [raised |-> "HTTPException", status |-> status, detail |-> detail, value |-> <<>>]
Unhandled(name) ==
    [raised |-> "unhandled", status |-> 500, detail |-> <<name>>, value |-> <<>>]

extract_text_from_pdf(contents) ==
    IF contents.ok
    THEN Return(JoinNewline(contents.pages))
    ELSE HTTPException(400, <<"Error processing PDF: ">> \o contents.err)

ModelName == "domo.domo_ai.domogpt-chat-small-v1:anthropic"
SystemPrefix == "You are a chatbot that answers questions based on the following PDF text: "
SystemSuffix == ". Provide concise answers, limited to 3-4 lines, ensuring clarity and relevance."

SystemPrompt(context) == <<SystemPrefix>> \o context \o <<SystemSuffix>>

\* Mutant of Payload: the question also interpolated into the system string.
PayloadQuestionInSystem(question, context) ==
    [input |-> question, model |-> ModelName,
     system |-> SystemPrompt(context \o question)]

Payload(question, context) ==
    [input |-> question, model |-> ModelName, system |-> SystemPrompt(context)]

\* json.dumps of a string: a newline becomes backslash n, a backslash is doubled.
RECURSIVE JsonEscape(_)
JsonEscape(s) ==
    IF s = <<>> THEN <<>>
    ELSE (IF Head(s) = NL THEN <<BS, "n">>
          ELSE IF Head(s) = BS THEN <<BS, BS>>
          ELSE <<Head(s)>>) \o JsonEscape(Tail(s))

JsonDumps(payload) ==
    [input |-> JsonEscape(payload.input),
     model |-> payload.model,
     system |-> JsonEscape(payload.system)]

\* ------------------------------------------------------- query_domo_api
\* except requests.exceptions.RequestException as e
TranslateRequestException(cause) ==
    HTTPException(500, <<"Error calling Domo API: ">> \o cause)

\* response.raise_for_status() raises HTTPError for 4xx and 5xx
RaisesForStatus(status) == status >= 400 /\ status < 600

\* response.json(), the `"output" not in response_data` test and the
\* response_data["output"] read, on the body of a response that passed
\* raise_for_status.
ParseOutput(body, build) ==
    IF body.t = "text"
    THEN IF build = "JSONDecodeError is RequestException"
         THEN TranslateRequestException(<<"Expecting value">>)
         ELSE Unhandled("JSONDecodeError")
    ELSE IF body.t \in {"number", "null"}
    THEN Unhandled("TypeError")
    ELSE IF ~body.has
    THEN HTTPException(500, <<"Unexpected response from Domo API">>)
    ELSE IF body.t = "object"
    THEN Return(body.val)
    ELSE Unhandled("TypeError")

\* Mutant of DomoResult: the raise_for_status call left out.
DomoResultNoRaiseForStatus(reply, build) ==
    IF reply.kind = "ConnectionError"
    THEN TranslateRequestException(reply.cause)
    ELSE ParseOutput(reply.body, build)

\* The try block of query_domo_api, given what requests.post produced.
DomoResult(reply, build) ==
    IF reply.kind = "ConnectionError"
    THEN TranslateRequestException(reply.cause)
    ELSE IF RaisesForStatus(reply.status)
    THEN TranslateRequestException(reply.cause)
    ELSE ParseOutput(reply.body, build)

\* ------------------------------------------------------------- handlers
\* Mutant of UploadCheck: the extension tested without its dot.
UploadCheckNoDot(filename) ==
    IF ~EndsWith(filename, <<"p", "d", "f">>)
    THEN HTTPException(400, <<"File must be a PDF">>)
    ELSE Return(<<>>)

\* upload_pdf, line 82-83
UploadCheck(filename) ==
    IF ~EndsWith(filename, PdfExt)
    THEN HTTPException(400, <<"File must be a PDF">>)
    ELSE Return(<<>>)

\* Mutant of Put: setdefault, the first writer wins.
PutIfAbsent(storage, text) == storage @@ (Key :> text)

\* Mutant of Put: the text appended to the text stored.
PutAppend(storage, text) ==
    (Key :> ((IF Key \in DOMAIN storage THEN storage[Key] ELSE <<>>) \o text))

\* pdf_storage["current_pdf"] = pdf_text
Put(storage, text) == (Key :> text) @@ storage

\* Mutant of StoreOnUpload: the slot cleared when the extraction fails.
StoreOnUploadClearsOnError(storage, result) ==
    IF result.raised = "no" THEN Put(storage, result.value) ELSE EmptyStorage

\* upload_pdf, lines 86-89: an exception of the extraction leaves the
\* function before the assignment.
StoreOnUpload(storage, result) ==
    IF result.raised = "no" THEN Put(storage, result.value) ELSE storage

\* Mutant of AskCheck: pdf_storage.get("current_pdf", "") without the test.
AskCheckGetDefault(storage) ==
    Return(IF Key \in DOMAIN storage THEN storage[Key] ELSE <<>>)

\* ask_question, lines 96-99: the membership test and the read of the slot
AskCheck(storage) ==
    IF Key \notin DOMAIN storage
    THEN HTTPException(400, <<"Please upload a PDF first">>)
    ELSE Return(storage[Key])

\* ---------------------------------------------------------------- state
Calls(read, extract, post) == [read |-> read, extract |-> extract, post |-> post]
NoCalls == Calls(0, 0, 0)

NoSent == [input |-> <<>>, model |-> "", system |-> <<>>]

\* A request in flight: its handler's position and local variables, the body
\* it sent to the provider, and how often it called read, extract and post.
Req(kind, pc, filename, question, context, sent, calls) ==
    [kind |-> kind, pc |-> pc, filename |-> filename, question |-> question,
     context |-> context, sent |-> sent, calls |-> calls]
Idle == Req("none", "idle", <<>>, <<>>, <<>>, NoSent, NoCalls)
Pending(kind) == Req(kind, "pending", <<>>, <<>>, <<>>, NoSent, NoCalls)

\* The last response sent: of which operation, its status and body (kind is
\* "detail" for an HTTPException, "plain" for the framework's answer to an
\* unhandled exception), and of the request it answers: the inputs, the calls
\* made and what the provider replied.
Response(op, status, kind, text, text_length, answer, req, upstream) ==
    [op |-> op, status |-> status, kind |-> kind, text |-> text,
     text_length |-> text_length, answer |-> answer,
     filename |-> req.filename, question |-> req.question,
     calls |-> req.calls, upstream |-> upstream]
NoResponse == Response("none", 0, "none", <<>>, 0, JNull, Idle, NoUpstream)

\* The response for an outcome that is not a return.
ErrorResponse(op, result, req, upstream) ==
    IF result.raised = "HTTPException"
    THEN Response(op, result.status, "detail", result.detail, 0, JNull, req, upstream)
    ELSE Response(op, 500, "plain", <<"Internal Server Error">>, 0, JNull, req, upstream)

\* History of the last put (line 89): the pages of the document uploaded, the
\* value of pdf_text assigned, and whether the slot held another text before.
NoPut == [pages |-> <<>>, pdf_text |-> <<>>, replaced |-> FALSE]

Init ==
    /\ pdf_storage = EmptyStorage
    /\ reqs = [r \in Rid |-> Idle]
    /\ loop = 0
    /\ resp = NoResponse
    /\ lastPut = NoPut

\* --------------------------------------------------------------- actions
\* A client sends a request; it waits until the event loop runs its handler.
Arrive(r, kind) ==
    /\ reqs[r].pc = "idle"
    /\ reqs' = [reqs EXCEPT ![r] = Pending(kind)]
    /\ UNCHANGED <<pdf_storage, loop, resp, lastPut>>

root(r) ==
    /\ loop = 0
    /\ reqs[r].kind = "root" /\ reqs[r].pc = "pending"
    /\ resp' = Response("root", 200, "message", <<"Welcome to PDF Analysis API.">>,
                        0, JNull, reqs[r], NoUpstream)
    /\ reqs' = [reqs EXCEPT ![r] = Idle]
    /\ UNCHANGED <<pdf_storage, loop, lastPut>>

\* upload_pdf up to `await file.read()`, where the handler yields the loop.
UploadStart(r, filename) ==
    /\ loop = 0
    /\ reqs[r].kind = "upload" /\ reqs[r].pc = "pending"
    /\ LET me == [reqs[r] EXCEPT !.filename = filename]
           check == UploadCheck(filename)
       IN IF check.raised # "no"
          THEN /\ resp' = ErrorResponse("upload", check, me, NoUpstream)
               /\ reqs' = [reqs EXCEPT ![r] = Idle]
          ELSE /\ reqs' = [reqs EXCEPT ![r] =
                              [me EXCEPT !.pc = "reading", !.calls.read = 1]]
               /\ UNCHANGED resp
    /\ UNCHANGED <<pdf_storage, loop, lastPut>>

\* The read is done: the handler is resumed on the loop and calls
\* extract_text_from_pdf, which runs on the loop's thread.
UploadResume(r) ==
    /\ loop = 0
    /\ reqs[r].kind = "upload" /\ reqs[r].pc = "reading"
    /\ loop' = r
    /\ reqs' = [reqs EXCEPT ![r].pc = "parsing", ![r].calls.extract = 1]
    /\ UNCHANGED <<pdf_storage, resp, lastPut>>

\* The extraction of the bytes read ends; lines 86-91.
UploadFinish(r, contents) ==
    /\ loop = r
    /\ reqs[r].pc = "parsing"
    /\ LET result == extract_text_from_pdf(contents)
       IN /\ pdf_storage' = StoreOnUpload(pdf_storage, result)
          /\ IF result.raised = "no"
             THEN /\ resp' = Response("upload", 200, "message",
                                      <<"PDF processed successfully">>,
                                      Len(result.value), JNull, reqs[r], NoUpstream)
                  /\ lastPut' = [pages |-> contents.pages, pdf_text |-> result.value,
                                  replaced |-> /\ Key \in DOMAIN pdf_storage
                                               /\ pdf_storage[Key] # result.value]
             ELSE /\ resp' = ErrorResponse("upload", result, reqs[r], NoUpstream)
                  /\ UNCHANGED lastPut
    /\ loop' = 0
    /\ reqs' = [reqs EXCEPT ![r] = Idle]

\* ask_question up to the requests.post of query_domo_api, which blocks the
\* thread of the loop until the provider has answered.
AskStart(r, question) ==
    /\ loop = 0
    /\ reqs[r].kind = "ask" /\ reqs[r].pc = "pending"
    /\ LET me == [reqs[r] EXCEPT !.question = question]
           check == AskCheck(pdf_storage)
       IN IF check.raised # "no"
          THEN /\ resp' = ErrorResponse("ask", check, me, NoUpstream)
               /\ reqs' = [reqs EXCEPT ![r] = Idle]
               /\ UNCHANGED loop
          ELSE /\ reqs' = [reqs EXCEPT ![r] =
                              [me EXCEPT !.pc = "posting",
                                         !.context = check.value,
                                         !.sent = JsonDumps(Payload(question, check.value)),
                                         !.calls.post = 1]]
               /\ loop' = r
               /\ UNCHANGED resp
    /\ UNCHANGED <<pdf_storage, lastPut>>

\* requests.post returns or raises; the rest of query_domo_api and of
\* ask_question runs, with the outcome either build of requests gives.
ProviderReply(r, reply) ==
    /\ loop = r
    /\ reqs[r].pc = "posting"
    /\ \E result \in {DomoResult(reply, build) : build \in Builds} :
          resp' = IF result.raised = "no"
                  THEN Response("ask", 200, "answer", <<>>, 0, result.value,
                                reqs[r], reply)
                  ELSE ErrorResponse("ask", result, reqs[r], reply)
    /\ loop' = 0
    /\ reqs' = [reqs EXCEPT ![r] = Idle]
    /\ UNCHANGED <<pdf_storage, lastPut>>

Next ==
    \/ \E r \in Rid, kind \in {"root", "upload", "ask"} : Arrive(r, kind)
    \/ \E r \in Rid : root(r)
    \/ \E r \in Rid, filename \in Filenames : UploadStart(r, filename)
    \/ \E r \in Rid : UploadResume(r)
    \/ \E r \in Rid, contents \in FileContents : UploadFinish(r, contents)
    \/ \E r \in Rid, question \in Questions : AskStart(r, question)
    \/ \E r \in Rid, reply \in Replies : ProviderReply(r, reply)

Spec == Init /\ [][Next]_vars

\* ------------------------------------------------------------ properties
\* The filename ends in ".pdf", stated on its last four symbols.
HasPdfSuffix(f) ==
    /\ Len(f) >= 4
    /\ f[Len(f) - 3] = "." /\ f[Len(f) - 2] = "p"
    /\ f[Len(f) - 1] = "d" /\ f[Len(f)] = "f"

\* Where page i starts in the joined text.
RECURSIVE PageStart(_, _)
PageStart(pages, i) ==
    IF i = 1 THEN 1 ELSE PageStart(pages, i - 1) + Len(pages[i - 1]) + 1

\* text is the pages in order with one newline between consecutive pages.
IsJoined(text, pages) ==
    LET n == Len(pages)
    IN /\ n >= 1
       /\ Len(text) = PageStart(pages, n) + Len(pages[n]) - 1
       /\ \A i \in 1..n :
            /\ SubSeq(text, PageStart(pages, i),
                      PageStart(pages, i) + Len(pages[i]) - 1) = pages[i]
            /\ i < n => text[PageStart(pages, i) + Len(pages[i])] = NL

\* The provider's decoding of a JSON string.
RECURSIVE JsonUnescape(_)
JsonUnescape(s) ==
    IF s = <<>> THEN <<>>
    ELSE IF Head(s) = BS /\ Len(s) >= 2
    THEN <<IF s[2] = "n" THEN NL ELSE s[2]>> \o JsonUnescape(SubSeq(s, 3, Len(s)))
    ELSE <<Head(s)>> \o JsonUnescape(Tail(s))

\* The decoded system string is the template around exactly the text d.
EmbedsExactly(system, d) ==
    /\ Len(system) = Len(d) + 2
    /\ system[1] = SystemPrefix
    /\ system[Len(system)] = SystemSuffix
    /\ SubSeq(system, 2, Len(system) - 1) = d

Posting(r) == reqs[r].pc = "posting"

\* C1: while no upload has succeeded (pdf_storage has no "current_pdf" key), an
\* ask is answered 400 "Please upload a PDF first" after no call of the
\* provider, and no ask is inside query_domo_api.
C1_AskBeforeUploadRejected ==
    Key \notin DOMAIN pdf_storage =>
        /\ resp.op = "ask" =>
              /\ resp.status = 400
              /\ resp.kind = "detail"
              /\ resp.text = <<"Please upload a PDF first">>
              /\ resp.calls.post = 0
              /\ resp.upstream = NoUpstream
        /\ \A r \in Rid : ~Posting(r)

C1_Witness ==
    /\ Key \notin DOMAIN pdf_storage
    /\ resp.op = "ask"
    /\ resp.question = <<"q", NL>>

\* C2: an upload whose filename does not end in ".pdf" is answered 400 without
\* the body read and without extract_text_from_pdf called; only uploads with
\* the extension get to the read and the extraction.
C2_WrongExtensionRejected ==
    /\ (resp.op = "upload" /\ ~HasPdfSuffix(resp.filename)) =>
          /\ resp.status = 400
          /\ resp.calls.read = 0
          /\ resp.calls.extract = 0
    /\ \A r \in Rid :
          reqs[r].pc \in {"reading", "parsing"} => HasPdfSuffix(reqs[r].filename)

C2_Witness ==
    /\ resp.op = "upload"
    /\ resp.filename = <<"p", "d", "f">>
    /\ resp.status = 400

\* C3: the text stored is the text of the last successful upload, also when
\* that upload replaced another text, and an ask that has passed its lookup
\* sent the template around that text and nothing else.
C3_LatestUploadWins ==
    Key \in DOMAIN pdf_storage =>
        /\ pdf_storage[Key] = lastPut.pdf_text
        /\ \A r \in Rid :
              Posting(r) => EmbedsExactly(JsonUnescape(reqs[r].sent.system),
                                          lastPut.pdf_text)

C3_Witness ==
    /\ lastPut.replaced
    /\ \E r \in Rid : Posting(r)

\* C5: the body an ask sends carries the question verbatim as input, the fixed
\* model name and the template around the stored text; a 200 reply whose body
\* is a JSON object with `output` is answered {answer: that value}.
C5_RequestAndAnswer ==
    /\ \A r \in Rid :
          Posting(r) =>
              /\ JsonUnescape(reqs[r].sent.input) = reqs[r].question
              /\ reqs[r].sent.model = "domo.domo_ai.domogpt-chat-small-v1:anthropic"
              /\ EmbedsExactly(JsonUnescape(reqs[r].sent.system), pdf_storage[Key])
    /\ (/\ resp.op = "ask"
        /\ resp.upstream.kind = "http"
        /\ resp.upstream.status = 200
        /\ resp.upstream.body.t = "object"
        /\ resp.upstream.body.has) =>
          /\ resp.status = 200
          /\ resp.kind = "answer"
          /\ resp.answer = resp.upstream.body.val

C5_Witness ==
    /\ resp.op = "ask"
    /\ resp.kind = "answer"
    /\ resp.answer = JNum("7")
    /\ \E r \in Rid : Posting(r) /\ reqs[r].question = <<"q", NL>>

\* C6: a connection error or a 4xx/5xx status of the outbound call is answered
\* 500 "Error calling Domo API: <cause>", after one POST of that request.
C6_TransportFailure ==
    (/\ resp.op = "ask"
     /\ \/ resp.upstream.kind = "ConnectionError"
        \/ resp.upstream.kind = "http" /\ resp.upstream.status >= 400) =>
        /\ resp.status = 500
        /\ resp.kind = "detail"
        /\ resp.text = <<"Error calling Domo API: ">> \o resp.upstream.cause
        /\ resp.calls.post = 1

C6_Witness ==
    /\ resp.op = "ask"
    /\ resp.upstream.kind = "http"
    /\ resp.upstream.status = 503

\* C7: the text stored is the pages of the last document uploaded, in order,
\* with a newline between them, and the text_length of a successful upload's
\* response is the length of the text stored.
C7_JoinedPages ==
    /\ Key \in DOMAIN pdf_storage => IsJoined(pdf_storage[Key], lastPut.pages)
    /\ (resp.op = "upload" /\ resp.status = 200) =>
          /\ Key \in DOMAIN pdf_storage
          /\ resp.text_length = Len(pdf_storage[Key])

C7_Witness ==
    /\ resp.op = "upload" /\ resp.status = 200
    /\ Len(lastPut.pages) = 2
    /\ lastPut.pages[1] # lastPut.pages[2]
    /\ resp.text_length = 3

\* C9: the slot changes only by the put of the upload that runs on the loop,
\* to the whole text of that upload, and an ask that starts its POST sends the
\* text the slot holds in that step.
C9_LastWriterWins ==
    [][/\ pdf_storage' # pdf_storage =>
            /\ loop \in Rid
            /\ reqs[loop].pc = "parsing"
            /\ DOMAIN pdf_storage' = {Key}
            /\ pdf_storage'[Key] = lastPut'.pdf_text
            /\ IsJoined(pdf_storage'[Key], lastPut'.pages)
       /\ \A r \in Rid :
            (~Posting(r) /\ reqs'[r].pc = "posting") =>
                /\ reqs'[r].context = pdf_storage[Key]
                /\ EmbedsExactly(JsonUnescape(reqs'[r].sent.system), pdf_storage[Key])
                /\ pdf_storage' = pdf_storage]_vars

C9_Witness ==
    /\ lastPut.replaced
    /\ \E r, q \in Rid : reqs[r].pc = "parsing" /\ reqs[q].pc = "reading"

\* A step in which request r of the given kind is answered.
Answered(r, kind) ==
    /\ reqs[r].kind = kind
    /\ reqs[r].pc # "idle"
    /\ reqs'[r].pc = "idle"

\* C10: the slot changes only in the step of an upload answered 200, it is
\* never removed, a rejected or failed upload, an ask and a root request leave
\* it as it is, and an ask answered while the slot is filled is not rejected
\* with "Please upload a PDF first".
C10_OnlyPutChangesStore ==
    [][/\ pdf_storage' # pdf_storage =>
            \E r \in Rid : /\ Answered(r, "upload")
                           /\ resp'.op = "upload"
                           /\ resp'.status = 200
       /\ Key \in DOMAIN pdf_storage => Key \in DOMAIN pdf_storage'
       /\ \A r \in Rid :
            /\ (Answered(r, "upload") /\ resp'.status = 400) =>
                  pdf_storage' = pdf_storage
            /\ (Answered(r, "ask") \/ Answered(r, "root")) =>
                  pdf_storage' = pdf_storage
            /\ (Answered(r, "ask") /\ Key \in DOMAIN pdf_storage) =>
                  resp'.text # <<"Please upload a PDF first">>]_vars

C10_Witness ==
    /\ Key \in DOMAIN pdf_storage
    /\ resp.op = "upload"
    /\ resp.status = 400
    /\ resp.text = <<"Error processing PDF: ", "cannot open broken document">>

\* C4: a reply with a successful status whose body is not JSON, or is a JSON
\* object without `output`, is answered 500 "Unexpected response from Domo API".
C4_MalformedBodyIsUnexpected ==
    (/\ resp.op = "ask"
     /\ resp.upstream.kind = "http"
     /\ resp.upstream.status = 200
     /\ \/ resp.upstream.body.t = "text"
        \/ resp.upstream.body.t = "object" /\ ~resp.upstream.body.has) =>
        /\ resp.status = 500
        /\ resp.kind = "detail"
        /\ resp.text = <<"Unexpected response from Domo API">>

\* A step of the handler of request q.
Handle(q) ==
    \/ root(q)
    \/ \E filename \in Filenames : UploadStart(q, filename)
    \/ UploadResume(q)
    \/ \E question \in Questions : AskStart(q, question)

\* C8: while a request is inside the outbound call or the document parse, any
\* other request that waits for its handler can be handled.
C8_BlockedCallOccupiesOnlyItsRequest ==
    \A r, q \in Rid :
        (/\ r # q
         /\ reqs[r].pc \in {"posting", "parsing"}
         /\ reqs[q].pc \in {"pending", "reading"}) => ENABLED Handle(q)

====
